---- MODULE Spec2Model ----
(***************************************************************************)
(* Model of the interstellar command line (src/cli.py): the deconstruct    *)
(* and reconstruct commands, composed with the BIP39 / SLIP39 tools.       *)
(*                                                                         *)
(* A Python string of space separated words is a sequence of tokens; a     *)
(* token is a TLA+ string.  The operators of the tools package            *)
(* (tools.BIP39, tools.SLIP39) follow the design document, sections        *)
(* 4.1 - 4.5, on a scaled-down alphabet: a dictionary of DictSize words,   *)
(* one word carrying one element of GF(4).                                 *)
(***************************************************************************)
EXTENDS Integers, Sequences, FiniteSets, TLC

\* ---------------------------------------------------------------- bounds
\* entropies offered to deconstruct are Stream(s, _) for s in 0..MaxEntropySeed
MaxEntropySeed == 1
\* outcomes of the random source are RandomBytes(r + _, _), r in 0..MaxRandSeed
MaxRandSeed == 1
\* the options --required and --total range over 0..MaxTotal and 1..MaxTotal
MaxTotal == 4

\* ------------------------------------------------------------ results
Ok(v) == [err |-> "", val |-> v]
Err(e) == [err |-> e, val |-> <<>>]
IsOk(r) == r.err = ""

\* ------------------------------------------------- 4.1 Word Dictionary
DictSize == 4
BipWords == <<"abandon", "ability", "able", "about">>
SlipWords == <<"academic", "acid", "acne", "acquire">>

InDict(words, w) == \E i \in 1..DictSize : words[i] = w
\* indexOf: the 1-based index of a word of the dictionary
IndexOf(words, w) == CHOOSE i \in 1..DictSize : words[i] = w
AllInDict(words, s) == \A i \in 1..Len(s) : InDict(words, s[i])

\* Python's str(int) and int(str) on the decimal digits
DigitChars == <<"0", "1", "2", "3", "4", "5", "6", "7", "8", "9">>
StrOfInt(i) == DigitChars[i + 1]
IsDigitTok(t) == \E i \in 1..Len(DigitChars) : DigitChars[i] = t
IntOfStr(t) == (CHOOSE i \in 1..Len(DigitChars) : DigitChars[i] = t) - 1

\* ------------------------------------------------ finite field GF(4)
FieldSize == 4
Field == 0..(FieldSize - 1)
Xor(a, b) == (((a % 2) + (b % 2)) % 2) + 2 * (((a \div 2) + (b \div 2)) % 2)
MulTable == << <<0, 0, 0, 0>>, <<0, 1, 2, 3>>, <<0, 2, 3, 1>>, <<0, 3, 1, 2>> >>
GFMul(a, b) == MulTable[a + 1][b + 1]
GFInv(a) == CHOOSE b \in Field : GFMul(a, b) = 1
RECURSIVE GFPow(_, _)
GFPow(a, k) == IF k = 0 THEN 1 ELSE GFMul(a, GFPow(a, k - 1))

XorSeq(p, q) == [i \in 1..Len(p) |-> Xor(p[i], q[i])]

\* the random source: the stream of field elements a seed stands for
Stream(seed, len) ==
  [i \in 1..len |->
     ((((i + seed) * (i + 2 * seed + 3) * 5) \div 7) + i * seed) % FieldSize]
\* what the random source returns for a seed: streams other than the ones the
\* input entropies are taken from
RandomBytes(seed, len) == Stream(seed + 11, len)

\* -------------------------------------------------- 4.2 Entropy Codec
ValidWordCounts == {12, 15, 18, 21, 24}
ChecksumLen(n) == n \div 6
EntropyLen(n) == n - ChecksumLen(n)
ValidEntropyLens == {EntropyLen(n) : n \in ValidWordCounts}
WordCountOf(len) == CHOOSE n \in ValidWordCounts : EntropyLen(n) = len

\* a stand-in for the cryptographic hash: a number below 251 that depends on
\* every element of the entropy and on its position
RECURSIVE HashFold(_, _, _, _)
HashFold(e, i, mult, acc) ==
  IF i > Len(e) THEN acc
  ELSE HashFold(e, i + 1, mult, (acc * mult + e[i] + i) % 251)
RECURSIVE Pow(_, _)
Pow(b, k) == IF k = 0 THEN 1 ELSE b * Pow(b, k - 1)
\* the leading checksum words of the hash of the entropy
Checksum(e) ==
  LET h == HashFold(e, 1, 5, 1)
  IN [k \in 1..ChecksumLen(WordCountOf(Len(e))) |->
        (h \div Pow(FieldSize, k - 1)) % FieldSize]

Encode(e) ==
  IF Len(e) \notin ValidEntropyLens THEN Err("InvalidEntropyLength")
  ELSE LET bits == e \o Checksum(e)
       IN Ok([i \in 1..Len(bits) |-> BipWords[bits[i] + 1]])

Decode(m) ==
  IF Len(m) \notin ValidWordCounts THEN Err("InvalidWordCount")
  ELSE IF ~AllInDict(BipWords, m) THEN Err("UnknownWord")
  ELSE LET idx == [i \in 1..Len(m) |-> IndexOf(BipWords, m[i]) - 1]
           e == SubSeq(idx, 1, EntropyLen(Len(m)))
           cs == SubSeq(idx, EntropyLen(Len(m)) + 1, Len(m))
       IN IF Checksum(e) = cs THEN Ok(e) ELSE Err("ChecksumMismatch")

\* 4.5 Derivation Verifier: a label that is a pure function of the entropy
Eth(m) ==
  LET d == Decode(m)
  IN IF IsOk(d) THEN <<HashFold(d.val, 1, 7, 2)>> ELSE <<>>

\* ------------------------------------------------ 4.3 Entropy Splitter
RECURSIVE XorFold(_, _, _)
XorFold(parts, i, acc) ==
  IF i > Len(parts) THEN acc ELSE XorFold(parts, i + 1, XorSeq(acc, parts[i]))

Split(e, n, seed) ==
  IF n = 1 THEN <<e>>
  ELSE LET rnd == [i \in 1..(n - 1) |-> RandomBytes(seed + i, Len(e))]
       IN Append(rnd, XorFold(rnd, 1, e))

Combine(parts) ==
  IF Len(parts) = 0 THEN Err("EmptyPartSet")
  ELSE IF \E i \in 1..Len(parts) : Len(parts[i]) # Len(parts[1])
       THEN Err("LengthMismatch")
  ELSE Ok(XorFold(parts, 2, parts[1]))

\* ------------------------------------------ 4.4 Threshold Sharing Engine
\* the field has FieldSize - 1 non-zero evaluation points
MaxShares == FieldSize - 1

\* the polynomial with constant term secret[i] at position i, evaluated at x
PolyEval(secret, coeffs, x) ==
  LET RECURSIVE Sum(_, _, _)
      Sum(i, j, acc) ==
        IF j > Len(coeffs) THEN acc
        ELSE Sum(i, j + 1, Xor(acc, GFMul(coeffs[j][i], GFPow(x, j))))
  IN [i \in 1..Len(secret) |-> Sum(i, 1, secret[i])]

\* a share: (group index, member index, threshold, value fragment)
SplitShares(part, M, N, seed) ==
  IF M < 1 \/ M > N \/ N > MaxShares THEN Err("InvalidThreshold")
  ELSE LET coeffs == [j \in 1..(M - 1) |-> RandomBytes(seed + 2 * j, Len(part))]
       IN Ok([x \in 1..N |->
               [group |-> 0, member |-> x - 1, threshold |-> M,
                value |-> PolyEval(part, coeffs, x)]])

\* Lagrange interpolation at x = 0 through the points of the given shares
Interpolate(sh) ==
  LET X(k) == sh[k].member + 1
      RECURSIVE Basis(_, _, _)
      Basis(k, l, acc) ==
        IF l > Len(sh) THEN acc
        ELSE IF l = k THEN Basis(k, l + 1, acc)
        ELSE Basis(k, l + 1, GFMul(acc, GFMul(X(l), GFInv(Xor(X(k), X(l))))))
      basis == [k \in 1..Len(sh) |-> Basis(k, 1, 1)]
      RECURSIVE Sum(_, _, _)
      Sum(i, k, acc) ==
        IF k > Len(sh) THEN acc
        ELSE Sum(i, k + 1, Xor(acc, GFMul(sh[k].value[i], basis[k])))
  IN [i \in 1..Len(sh[1].value) |-> Sum(i, 1, 0)]

ReconstructShares(sh) ==
  IF Len(sh) = 0 THEN Err("InsufficientShares")
  ELSE IF \E k \in 1..Len(sh) :
            \/ sh[k].group # sh[1].group
            \/ sh[k].threshold # sh[1].threshold
            \/ Len(sh[k].value) # Len(sh[1].value)
       THEN Err("InconsistentGroup")
  ELSE IF Cardinality({sh[k].member : k \in 1..Len(sh)}) < sh[1].threshold
       THEN Err("InsufficientShares")
  ELSE IF Cardinality({sh[k].member : k \in 1..Len(sh)}) < Len(sh)
       THEN Err("DuplicateMember")
  ELSE Ok(Interpolate(sh))

\* a share as a sequence of dictionary words, and back
ShareHeader == 3
ShareToWords(s) ==
  <<SlipWords[s.group + 1], SlipWords[s.member + 1], SlipWords[s.threshold]>>
    \o [i \in 1..Len(s.value) |-> SlipWords[s.value[i] + 1]]

ShareOfWords(w) ==
  IF ~AllInDict(SlipWords, w) THEN Err("UnknownWord")
  ELSE IF Len(w) <= ShareHeader THEN Err("InvalidShare")
  ELSE Ok([group |-> IndexOf(SlipWords, w[1]) - 1,
           member |-> IndexOf(SlipWords, w[2]) - 1,
           threshold |-> IndexOf(SlipWords, w[3]),
           value |-> [i \in 1..(Len(w) - ShareHeader) |->
                        IndexOf(SlipWords, w[i + ShareHeader]) - 1]])

\* the first failure in a sequence of results, or "" when there is none
FirstErr(rs) ==
  IF \A i \in 1..Len(rs) : IsOk(rs[i]) THEN ""
  ELSE rs[CHOOSE i \in 1..Len(rs) :
            ~IsOk(rs[i]) /\ \A j \in 1..(i - 1) : IsOk(rs[j])].err
Vals(rs) == [i \in 1..Len(rs) |-> rs[i].val]

\* ------------------------------------------------------- tools.BIP39
\* decode, split into `split` parts, encode each part
Bip39Deconstruct(mnemonic, split, seed) ==
  LET d == Decode(mnemonic)
  IN IF ~IsOk(d) THEN d
     ELSE LET parts == Split(d.val, split, seed)
              enc == [i \in 1..Len(parts) |-> Encode(parts[i])]
          IN IF FirstErr(enc) # "" THEN Err(FirstErr(enc)) ELSE Ok(Vals(enc))

\* decode each part, combine, encode
Bip39Reconstruct(mnemos) ==
  LET dec == [i \in 1..Len(mnemos) |-> Decode(mnemos[i])]
  IN IF FirstErr(dec) # "" THEN Err(FirstErr(dec))
     ELSE LET c == Combine(Vals(dec))
          IN IF IsOk(c) THEN Encode(c.val) ELSE c

\* ------------------------------------------------------ tools.SLIP39
Slip39Deconstruct(part, required, total, seed) ==
  LET d == Decode(part)
  IN IF ~IsOk(d) THEN d
     ELSE LET s == SplitShares(d.val, required, total, seed)
          IN IF ~IsOk(s) THEN s
             ELSE Ok([k \in 1..Len(s.val) |-> ShareToWords(s.val[k])])

Slip39GetRequired(share) ==
  LET s == ShareOfWords(share)
  IN IF IsOk(s) THEN Ok(s.val.threshold) ELSE s

Slip39Reconstruct(group) ==
  LET parsed == [k \in 1..Len(group) |-> ShareOfWords(group[k])]
  IN IF FirstErr(parsed) # "" THEN Err(FirstErr(parsed))
     ELSE LET r == ReconstructShares(Vals(parsed))
          IN IF IsOk(r) THEN Encode(r.val) ELSE r

\* the attribute SLIP39.map: word -> 1-based index (4.1: index in [1, size])
SlipMap(word) == IndexOf(SlipWords, word)

\* ==================================================== src/cli.py: CLI
NoFile == [exists |-> FALSE, lines |-> <<>>]
FileOf(lines) == [exists |-> TRUE, lines |-> lines]

\* str.upper on the values the --standard option is given
Upper(s) ==
  CASE s = "slip39" -> "SLIP39"
    [] s = "bip39" -> "BIP39"
    [] s = "pgp" -> "PGP"
    [] OTHER -> s

\* open() fails on a missing file; a line is the list of its comma separated
\* fields, so an empty line is the list holding one empty field
GetMnemos(file) ==
  IF ~file.exists THEN Err("FileNotFoundError") ELSE Ok(file.lines)

EnforceStandard(standard) ==
  IF Upper(standard) \notin {"SLIP39", "BIP39"}
  THEN "ValueError: Standard must be either 'SLIP39' or 'BIP39'"
  ELSE ""

\* the option's text split on ';' then ','; the empty text gives the empty list
Parse2DList(value) == IF value = <<>> THEN <<>> ELSE value

\* list[k] of Python for an int k that may be negative or out of range
PyIndex(list, k) ==
  IF k >= Len(list) \/ k < 0 - Len(list) THEN Err("IndexError")
  ELSE IF k < 0 THEN Ok(list[Len(list) + k + 1])
  ELSE Ok(list[k + 1])

\* ------------------------------------------------ src/cli.py: deconstruct
SplitWordCount == 24
SplitOfSwapped(mnemonic) == IF Len(mnemonic) = SplitWordCount THEN 1 ELSE 2
SplitOf(mnemonic) == IF Len(mnemonic) = SplitWordCount THEN 2 ELSE 1

DOut(err, standard, bundles, shares, split, digits) ==
  [err |-> err, standard |-> standard, bundles |-> bundles, shares |-> shares,
   split |-> split, digits |-> digits]
DFail(err) == DOut(err, "", <<>>, <<>>, 0, FALSE)

\* " ".join(str(cli.slip39.map[word]) for word in share.split())
ShareToDigits(share) == [i \in 1..Len(share) |-> StrOfInt(SlipMap(share[i]))]

\* the mnemonic deconstruct works on: the option, else the file's first field
DeconstructInput(mnemonic, file) ==
  IF mnemonic # <<>> THEN Ok(mnemonic)
  ELSE LET g == GetMnemos(file)
       IN IF ~IsOk(g) THEN g
          ELSE IF Len(g.val) = 0 THEN Err("IndexError")
          ELSE Ok(g.val[1][1])

BipBundles(parts, digits) ==
  [i \in 1..Len(parts) |->
     [standard |-> "BIP39", mnemonic |-> parts[i], eth_addr |-> Eth(parts[i]),
      digits |-> digits]]

SlipGroups(parts, required, total, digits, seed) ==
  [i \in 1..Len(parts) |->
     LET r == Slip39Deconstruct(parts[i], required, total, seed + i)
     IN IF ~IsOk(r) THEN r
        ELSE IF digits
             THEN Ok([k \in 1..Len(r.val) |-> ShareToDigits(r.val[k])])
        ELSE r]

Deconstruct(mnemonicOpt, file, standard, required, total, digits, seed) ==
  IF EnforceStandard(standard) # "" THEN DFail(EnforceStandard(standard))
  ELSE LET inp == DeconstructInput(mnemonicOpt, file)
       IN IF ~IsOk(inp) THEN DFail(inp.err)
          ELSE IF inp.val = <<>> THEN DFail("ValueError: Mnemonic is required")
          ELSE LET mnemonic == inp.val
                   split == SplitOf(mnemonic)
                   parts == Bip39Deconstruct(mnemonic, split, seed)
               IN IF ~IsOk(parts) THEN DFail(parts.err)
                  ELSE IF Upper(standard) = "BIP39"
                       THEN DOut("", "BIP39", BipBundles(parts.val, digits),
                                 <<>>, 0, digits)
                  ELSE LET gs == SlipGroups(parts.val, required, total,
                                            digits, seed)
                       IN IF FirstErr(gs) # "" THEN DFail(FirstErr(gs))
                          ELSE DOut("", "SLIP39", <<>>, Vals(gs), split, digits)

\* ------------------------------------------------ src/cli.py: reconstruct
ROut(err, mnemonic, required, digits) ==
  [err |-> err, standard |-> IF err = "" THEN "BIP39" ELSE "",
   mnemonic |-> mnemonic, eth_addr |-> Eth(mnemonic), required |-> required,
   digits |-> digits]
RFail(err) == ROut(err, <<>>, 0, FALSE)

\* words[int(idx)] for one token: the index taken as 0-based
WordAtDigitNoOffset(words, idx) ==
  IF ~IsDigitTok(idx) THEN Err("ValueError: invalid literal for int()")
  ELSE PyIndex(words, IntOfStr(idx))

\* words[int(idx) - 1] for one token
WordAtDigit(words, idx) ==
  IF ~IsDigitTok(idx) THEN Err("ValueError: invalid literal for int()")
  ELSE PyIndex(words, IntOfStr(idx) - 1)

\* " ".join(words[int(idx) - 1] for idx in member.split())
DigitsToWords(words, member) ==
  LET ws == [i \in 1..Len(member) |-> WordAtDigit(words, member[i])]
  IN IF FirstErr(ws) # "" THEN Err(FirstErr(ws)) ELSE Ok(Vals(ws))

GroupToWords(group) ==
  LET ms == [k \in 1..Len(group) |-> DigitsToWords(SlipWords, group[k])]
  IN IF FirstErr(ms) # "" THEN Err(FirstErr(ms)) ELSE Ok(Vals(ms))

\* the characters of the text of a token sequence: the tokens' characters with
\* one space between tokens.  A digit token is its own single character; of a
\* dictionary word only the fact that its characters are letters is kept.
RECURSIVE Chars(_)
Chars(member) ==
  IF Len(member) = 0 THEN <<>>
  ELSE LET c == IF IsDigitTok(member[1]) THEN member[1] ELSE "a"
       IN IF Len(member) = 1 THEN <<c>>
          ELSE <<c, " ">> \o Chars(Tail(member))

\* one pass of the loop over the groups: gidx is the 0-based position
RECURSIVE SlipLoop(_, _, _, _, _)
SlipLoop(groups, gidx, digits, required, acc) ==
  IF gidx >= Len(groups) THEN [err |-> "", val |-> acc, required |-> required]
  ELSE LET conv == IF digits THEN GroupToWords(groups[gidx + 1])
                   ELSE Ok(groups[gidx + 1])
       IN IF ~IsOk(conv) THEN [err |-> conv.err, val |-> <<>>, required |-> 0]
          ELSE LET group == conv.val
                   member == PyIndex(group, gidx)
               IN IF ~IsOk(member)
                  THEN [err |-> member.err, val |-> <<>>, required |-> 0]
                  ELSE LET req == Slip39GetRequired(member.val)
                           part == Slip39Reconstruct(group)
                       IN IF ~IsOk(req)
                          THEN [err |-> req.err, val |-> <<>>, required |-> 0]
                          ELSE IF ~IsOk(part)
                          THEN [err |-> part.err, val |-> <<>>, required |-> 0]
                          ELSE SlipLoop(groups, gidx + 1, digits, req.val,
                                        Append(acc, part.val))

\* shares = [part for part in shares[0]]: the first group only
FlattenFirstGroup(groups) == IF Len(groups) = 0 THEN <<>> ELSE groups[1]

\* shares = [part for group in shares for part in group]
RECURSIVE Flatten(_)
Flatten(groups) ==
  IF Len(groups) = 0 THEN <<>> ELSE groups[1] \o Flatten(Tail(groups))

\* [" ".join(words[int(idx)-1] for idx in share.split()) for share in shares[0]]
\* the loop variable runs over the characters of the first part
BipDigits(flat) ==
  LET first == PyIndex(flat, 0)
  IN IF ~IsOk(first) THEN first
     ELSE LET cs == Chars(first.val)
              ws == [i \in 1..Len(cs) |->
                       IF cs[i] = " " THEN Ok(<<>>)
                       ELSE DigitsToWords(BipWords, <<cs[i]>>)]
          IN IF FirstErr(ws) # "" THEN Err(FirstErr(ws)) ELSE Ok(Vals(ws))

ReconstructInput(shares, file) ==
  IF Parse2DList(shares) # <<>> THEN Ok(Parse2DList(shares))
  ELSE GetMnemos(file)

Finish(parts, required, digits) ==
  LET r == Bip39Reconstruct(parts)
  IN IF IsOk(r) THEN ROut("", r.val, required, digits) ELSE RFail(r.err)

Reconstruct(sharesOpt, file, standard, digits) ==
  IF EnforceStandard(standard) # "" THEN RFail(EnforceStandard(standard))
  ELSE LET inp == ReconstructInput(sharesOpt, file)
       IN IF ~IsOk(inp) THEN RFail(inp.err)
          ELSE IF inp.val = <<>> THEN RFail("ValueError: Shares are required")
          ELSE IF Upper(standard) = "SLIP39"
               THEN LET l == SlipLoop(inp.val, 0, digits, 0, <<>>)
                    IN IF l.err # "" THEN RFail(l.err)
                       ELSE Finish(l.val, l.required, digits)
          ELSE LET flat == Flatten(inp.val)
               IN IF digits
                  THEN LET b == BipDigits(flat)
                       IN IF IsOk(b) THEN Finish(b.val, 0, digits)
                          ELSE RFail(b.err)
                  ELSE Finish(flat, 0, digits)

\* ======================================================= the state machine
VARIABLES pc, dargs, dout, rargs, rout
vars == <<pc, dargs, dout, rargs, rout>>

\* ---------------------------------------------------------------- inputs
DStandards == {"SLIP39", "BIP39", "bip39", "PGP"}
RStandards == {"SLIP39", "BIP39", "pgp"}
GoodStandards == {"SLIP39", "BIP39"}
InputWordCounts == {12, 18, 24}
DefaultRequired == 2
DefaultTotal == 3

MnemonicOf(s, n) == Encode(Stream(s, EntropyLen(n))).val
ValidMnemonics ==
  {MnemonicOf(s, n) : s \in 0..MaxEntropySeed, n \in InputWordCounts}
\* a mnemonic of three words, and one whose last checksum word is wrong
BadMnemonics ==
  { <<"abandon", "able", "about">>,
    [MnemonicOf(0, 12) EXCEPT ![12] =
       IF MnemonicOf(0, 12)[12] = "able" THEN "about" ELSE "able"] }

EmptyFile == FileOf(<<>>)
BlankFile == FileOf(<< << <<>> >> >>)
DFiles == {NoFile, EmptyFile, BlankFile, FileOf(<< <<MnemonicOf(0, 12)>> >>)}

\* the elements of group at the positions of S, in their order
Pick(group, S) ==
  LET RECURSIVE F(_, _)
      F(i, acc) ==
        IF i > Len(group) THEN acc
        ELSE F(i + 1, IF i \in S THEN Append(acc, group[i]) ELSE acc)
  IN F(1, <<>>)

\* the non-empty sequences of distinct group positions
Orders(n) ==
  {o \in UNION {[1..k -> 1..n] : k \in 1..n} :
     \A i, j \in DOMAIN o : i # j => o[i] # o[j]}

\* what a deconstruct result holds, as groups: the share groups, or one group
\* per part bundle
GroupsOf(d) ==
  IF d.standard = "SLIP39" THEN d.shares
  ELSE [i \in 1..Len(d.bundles) |-> <<d.bundles[i].mnemonic>>]

\* all members of all groups in one group
OneGroup(groups) ==
  LET RECURSIVE F(_, _)
      F(i, acc) == IF i > Len(groups) THEN acc ELSE F(i + 1, acc \o groups[i])
  IN <<F(1, <<>>)>>

\* the parts written as 1-based dictionary indices, as a user would type them
PartsToDigits(groups) ==
  [g \in 1..Len(groups) |->
     [k \in 1..Len(groups[g]) |->
        [i \in 1..Len(groups[g][k]) |->
           StrOfInt(IndexOf(BipWords, groups[g][k][i]))]]]

\* the --shares values offered to reconstruct: some of the groups of the last
\* deconstruct, in some order, each with a non-empty subset of its members;
\* part bundles also all in one group, and as dictionary indices
ShareInputs(d) ==
  IF d.err # "" THEN {}
  ELSE LET groups == GroupsOf(d)
           n == Len(groups)
           subsets == (SUBSET (1..Len(groups[1]))) \ {{}}
       IN {[k \in 1..Len(o) |-> Pick(groups[o[k]], sel[o[k]])] :
             o \in Orders(n), sel \in [1..n -> subsets]}
          \cup (IF d.standard = "BIP39"
                THEN {OneGroup(groups), PartsToDigits(groups),
                      OneGroup(PartsToDigits(groups))}
                ELSE {})

RFiles(d) ==
  {NoFile, EmptyFile, BlankFile}
    \cup (IF d.err = "" THEN {FileOf(GroupsOf(d))} ELSE {})

\* ------------------------------------------------------------------ Init
NoDArgs ==
  [mnemonic |-> <<>>, file |-> NoFile, standard |-> "", required |-> 0,
   total |-> 0, digits |-> FALSE]
NoRArgs == [shares |-> <<>>, file |-> NoFile, standard |-> "", digits |-> FALSE]

Init ==
  /\ pc = "start"
  /\ dargs = NoDArgs
  /\ dout = DFail("not run")
  /\ rargs = NoRArgs
  /\ rout = RFail("not run")

\* --------------------------------------------------------------- actions
\* one run of the deconstruct command; --required and --total keep their
\* defaults when the standard is not SLIP39, and --filename is given only
\* without --mnemonic
DeconstructCmd ==
  /\ pc = "start"
  /\ \E mnemonic \in ValidMnemonics \cup BadMnemonics \cup {<<>>},
        standard \in DStandards, digits \in BOOLEAN, seed \in 0..MaxRandSeed :
       \E file \in (IF mnemonic = <<>> THEN DFiles ELSE {NoFile}),
          required \in (IF standard = "SLIP39" THEN 0..MaxTotal
                        ELSE {DefaultRequired}),
          total \in (IF standard = "SLIP39" THEN 1..MaxTotal
                     ELSE {DefaultTotal}) :
         /\ dargs' = [mnemonic |-> mnemonic, file |-> file,
                      standard |-> standard, required |-> required,
                      total |-> total, digits |-> digits]
         /\ dout' = Deconstruct(mnemonic, file, standard, required, total,
                                digits, seed)
  /\ pc' = "deconstructed"
  /\ UNCHANGED <<rargs, rout>>

\* one run of the reconstruct command: on what deconstruct printed, or, when
\* nothing was printed, with no --shares option
ReconstructCmd ==
  /\ pc = "start" \/ (pc = "deconstructed" /\ dout.err = "")
  /\ \E shares \in ShareInputs(dout) \cup {<<>>}, digits \in BOOLEAN :
       \E file \in (IF shares = <<>> THEN RFiles(dout) ELSE {NoFile}),
          standard \in (IF shares = <<>> THEN RStandards ELSE GoodStandards) :
         /\ rargs' = [shares |-> shares, file |-> file, standard |-> standard,
                      digits |-> digits]
         /\ rout' = Reconstruct(shares, file, standard, digits)
  /\ pc' = "reconstructed"
  /\ UNCHANGED <<dargs, dout>>

Next == DeconstructCmd \/ ReconstructCmd

Spec == Init /\ [][Next]_vars

\* ================================================================ claims
\* the mnemonic the last deconstruct worked on
Orig == DeconstructInput(dargs.mnemonic, dargs.file).val
\* the groups the last reconstruct worked on
RGroups == ReconstructInput(rargs.shares, rargs.file).val
ExpectedSplit == IF Len(Orig) = 24 THEN 2 ELSE 1

DDone == pc # "start"
RDone == pc = "reconstructed"
\* deconstruct shared the secret and reconstruct was asked for the same
\* standard, both with words
SlipWordsRun ==
  /\ RDone
  /\ dout.err = "" /\ dout.standard = "SLIP39" /\ ~dout.digits
  /\ Upper(rargs.standard) = "SLIP39" /\ ~rargs.digits

\* group g of the input is a subset of exactly / at least m shares of group h
IsSubsetOf(group, h) ==
  \E S \in SUBSET (1..Len(dout.shares[h])) : group = Pick(dout.shares[h], S)
\* the input holds every group of the sharing, in the order deconstruct gave
AllGroupsInOrder ==
  /\ Len(RGroups) = Len(dout.shares)
  /\ \A g \in 1..Len(RGroups) : IsSubsetOf(RGroups[g], g)

\* C1: after deconstruct (SLIP39, required M, total N), reconstruct on groups
\* that each hold an M-element subset of that group's N shares returns
\* exactly the original mnemonic.
C1_ThresholdRoundTrip ==
  (/\ SlipWordsRun
   /\ AllGroupsInOrder
   /\ \A g \in 1..Len(RGroups) : Len(RGroups[g]) = dargs.required)
  => (rout.err = "" /\ rout.mnemonic = Orig)

\* C2: whenever a group passed to reconstruct (SLIP39) holds fewer than M
\* distinct shares of its M-of-N group, whatever the group's position,
\* reconstruct ends in InsufficientShares and emits no mnemonic.
C2_ThresholdInsufficiency ==
  (/\ SlipWordsRun
   /\ AllGroupsInOrder
   /\ \E g \in 1..Len(RGroups) : Len(RGroups[g]) < dargs.required)
  => (rout.err = "InsufficientShares" /\ rout.mnemonic = <<>>)

\* C3: when a 24-word mnemonic was deconstructed into 2 groups, reconstruct
\* called with a number of groups different from the split count fails with
\* PartCountMismatch and emits no mnemonic.
C3_PartCountCheck ==
  (/\ SlipWordsRun
   /\ Len(Orig) = 24
   /\ Len(RGroups) >= 1
   /\ Len(RGroups) # dout.split
   /\ \A g \in 1..Len(RGroups) :
        /\ \E h \in 1..Len(dout.shares) : IsSubsetOf(RGroups[g], h)
        /\ Len(RGroups[g]) >= dargs.required)
  => (rout.err = "PartCountMismatch" /\ rout.mnemonic = <<>>)

\* the input holds every part deconstruct emitted, each once, in any order
\* and any grouping
AllParts ==
  LET flat == OneGroup(RGroups)[1]
      n == Len(dout.bundles)
  IN /\ Len(flat) = n
     /\ \E o \in Orders(n) :
          Len(o) = n /\ \A k \in 1..n : flat[k] = dout.bundles[o[k]].mnemonic

\* C4: deconstruct with standard BIP39 followed by reconstruct with standard
\* BIP39 on all the parts it produced returns exactly the original mnemonic
\* (the parts are words, and reconstruct is told so).
C4_BipRoundTrip ==
  (/\ RDone
   /\ dout.err = "" /\ dout.standard = "BIP39"
   /\ Upper(rargs.standard) = "BIP39" /\ ~rargs.digits
   /\ AllParts)
  => (rout.err = "" /\ rout.mnemonic = Orig)

C4_Witness ==
  /\ RDone
  /\ dout.err = "" /\ dout.standard = "BIP39" /\ Len(dout.bundles) = 2
  /\ Upper(rargs.standard) = "BIP39" /\ ~rargs.digits
  /\ AllParts
  /\ Len(RGroups) = 2
  /\ RGroups[1][1] = dout.bundles[2].mnemonic
  /\ RGroups[1][1] # Orig /\ RGroups[2][1] # Orig
  /\ rout.mnemonic = Orig

\* the full-length orders of 1..n
Perms(n) == {o \in Orders(n) : Len(o) = n}
Permuted(seq, o) == [k \in 1..Len(seq) |-> seq[o[k]]]
SameOutcome(r1, r2) == r1.err = r2.err /\ r1.mnemonic = r2.mnemonic
ReRun(groups) == Reconstruct(groups, NoFile, rargs.standard, rargs.digits)

\* C5: for a complete set of share groups (or parts) of one secret,
\* reconstruct returns the same mnemonic for every permutation of the groups
\* and every permutation of the shares inside a group.
C5_OrderIndependence ==
  (/\ RDone
   /\ dout.err = "" /\ Upper(rargs.standard) = dout.standard /\ ~rargs.digits
   /\ ~dout.digits
   /\ rargs.shares # <<>>
   /\ IF dout.standard = "BIP39" THEN AllParts
      ELSE /\ Len(RGroups) = Len(dout.shares)
           /\ \E o \in Perms(Len(RGroups)) :
                \A g \in 1..Len(RGroups) : IsSubsetOf(RGroups[g], o[g])
           /\ \A g \in 1..Len(RGroups) : Len(RGroups[g]) >= dargs.required)
  => /\ \A o \in Perms(Len(RGroups)) :
          SameOutcome(ReRun(Permuted(RGroups, o)), rout)
     /\ \A g \in 1..Len(RGroups) : \A q \in Perms(Len(RGroups[g])) :
          SameOutcome(
            ReRun([RGroups EXCEPT ![g] = Permuted(RGroups[g], q)]), rout)

\* C6: deconstruct uses split count 2 exactly when the mnemonic has 24 words
\* and 1 otherwise; with SLIP39 the result holds exactly split-count groups of
\* exactly `total` shares each and the echoed split is the number of groups;
\* with BIP39 it holds exactly split-count part bundles.
C6_ResultShape ==
  (DDone /\ dout.err = "")
  => IF dout.standard = "SLIP39"
     THEN /\ Len(dout.shares) = ExpectedSplit
          /\ \A g \in 1..Len(dout.shares) : Len(dout.shares[g]) = dargs.total
          /\ dout.split = Len(dout.shares)
     ELSE /\ dout.standard = "BIP39"
          /\ Len(dout.bundles) = ExpectedSplit

C6_Witness ==
  /\ DDone /\ dout.err = "" /\ dout.standard = "SLIP39"
  /\ Len(Orig) = 24 /\ Len(dout.shares) = 2 /\ dout.split = 2
  /\ dargs.total = 3 /\ dargs.required = 2
  /\ Len(dout.shares[1]) = 3 /\ Len(dout.shares[2]) = 3

\* wordAt(index) of the dictionary, for a share written as indices
WordForm(groups) ==
  [g \in 1..Len(groups) |->
     [k \in 1..Len(groups[g]) |->
        [i \in 1..Len(groups[g][k]) |-> SlipWords[IntOfStr(groups[g][k][i])]]]]

\* C7: the word-to-index substitution of deconstruct (digits) and the
\* index-to-word substitution of reconstruct (digits) are inverse bijections
\* over the 1-based indices 1..DictSize, so reconstruct on the digit form of a
\* share set returns what reconstruct returns on its word form.
C7_DigitsRoundTrip ==
  /\ (DDone /\ dout.err = "" /\ dout.standard = "SLIP39" /\ dout.digits)
     => \A g \in 1..Len(dout.shares) : \A k \in 1..Len(dout.shares[g]) :
          LET share == dout.shares[g][k]
              back == DigitsToWords(SlipWords, share)
          IN /\ \A i \in 1..Len(share) :
                  IsDigitTok(share[i]) /\ IntOfStr(share[i]) \in 1..DictSize
             /\ IsOk(back)
             /\ ShareToDigits(back.val) = share
  /\ (/\ RDone
      /\ dout.err = "" /\ dout.standard = "SLIP39" /\ dout.digits
      /\ Upper(rargs.standard) = "SLIP39" /\ rargs.digits
      /\ rargs.shares # <<>>)
     => LET words == Reconstruct(WordForm(rargs.shares), NoFile,
                                 rargs.standard, FALSE)
        IN /\ SameOutcome(rout, words)
           /\ rout.required = words.required

C7_Witness ==
  /\ RDone
  /\ dout.err = "" /\ dout.standard = "SLIP39" /\ dout.digits
  /\ Upper(rargs.standard) = "SLIP39" /\ rargs.digits
  /\ Len(Orig) = 24 /\ dargs.required = 2 /\ dargs.total = 3
  /\ Len(rargs.shares) = 2
  /\ Len(rargs.shares[1]) = 2 /\ Len(rargs.shares[2]) = 2
  /\ rout.err = "" /\ rout.mnemonic = Orig

\* deconstruct (BIP39) with digits emits the parts as indices
C8_DeconstructHalf ==
  (DDone /\ dout.err = "" /\ dout.standard = "BIP39" /\ dout.digits)
  => \A b \in 1..Len(dout.bundles) :
       \A i \in 1..Len(dout.bundles[b].mnemonic) :
         IsDigitTok(dout.bundles[b].mnemonic[i])

\* reconstruct (BIP39) with digits, on all the parts written as indices,
\* returns the mnemonic
C8_ReconstructHalf ==
  (/\ RDone
   /\ dout.err = "" /\ dout.standard = "BIP39"
   /\ Upper(rargs.standard) = "BIP39" /\ rargs.digits
   /\ rargs.shares \in {PartsToDigits(GroupsOf(dout)),
                        OneGroup(PartsToDigits(GroupsOf(dout)))})
  => (rout.err = "" /\ rout.mnemonic = Orig)

\* C8: with standard BIP39 and digits, reconstruct replaces every index of
\* every supplied part by its dictionary word before combining, so it returns
\* the mnemonic it returns for the same parts given as words; and deconstruct
\* with digits emits the parts as indices.
C8_BipDigits == C8_ReconstructHalf /\ C8_DeconstructHalf

\* C9: for every input whose groups each hold at least M valid shares of an
\* M-of-N sharing, reconstruct (SLIP39) completes and its result field
\* `required` equals M, whatever a group's position or size.
C9_EchoedThreshold ==
  (/\ SlipWordsRun
   /\ Len(RGroups) >= 1
   /\ \A g \in 1..Len(RGroups) :
        /\ \E h \in 1..Len(dout.shares) : IsSubsetOf(RGroups[g], h)
        /\ Len(RGroups[g]) >= dargs.required)
  => (rout.err = "" /\ rout.required = dargs.required)

BadStandard(standard) == Upper(standard) \notin {"SLIP39", "BIP39"}
NothingIn(file) == file \in {NoFile, EmptyFile, BlankFile}
StandardError == "ValueError: Standard must be either 'SLIP39' or 'BIP39'"

\* C10: deconstruct and reconstruct fail with ValueError when the standard is
\* neither SLIP39 nor BIP39; deconstruct fails with ValueError 'Mnemonic is
\* required' whenever no mnemonic is available (option empty and the file
\* absent, empty or blank), and reconstruct fails with ValueError 'Shares are
\* required' whenever no shares are available.
C10_InputRejected ==
  /\ (DDone /\ BadStandard(dargs.standard)) => dout.err = StandardError
  /\ (RDone /\ BadStandard(rargs.standard)) => rout.err = StandardError
  /\ (/\ DDone /\ ~BadStandard(dargs.standard)
      /\ dargs.mnemonic = <<>> /\ NothingIn(dargs.file))
     => dout.err = "ValueError: Mnemonic is required"
  /\ (/\ RDone /\ ~BadStandard(rargs.standard)
      /\ rargs.shares = <<>> /\ NothingIn(rargs.file))
     => rout.err = "ValueError: Shares are required"

====
